---- MODULE Spec2Model ----
(***************************************************************************)
(* A model of sfz, a static file server: the per-request pipeline          *)
(* (InnerService::handle_request), the conditional-request and             *)
(* range-request evaluators, the content-encoding negotiator, the body     *)
(* senders and the access-log body wrapper (LoggableBody).                 *)
(***************************************************************************)
EXTENDS Integers, Sequences, FiniteSets, TLC

VARIABLES
    args,       \* the immutable Args held by InnerService
    req,        \* the request last handed to handle_request
    res,        \* the response returned by InnerService::call
    local,      \* handle_request's locals at the point it returned
    cond,       \* inputs and results of the conditional-request evaluator
    lb,         \* a LoggableBody and what has been observed of it
    rng,        \* inputs and results of the range-request functions
    neg,        \* an Accept-Encoding header and the encoding chosen for it
    vanished,   \* whether the target of `req' was removed while it was handled
    ls,         \* a directory walk and the listing made of it
    snd         \* inputs and results of send_file_with_range

vars == <<args, req, res, local, cond, lb, rng, neg, vanished, ls, snd>>

-----------------------------------------------------------------------------
(* Bounds *)

\* Length in bytes of the largest regular file of the modelled tree.
MaxLen == 4
\* Header dates (whole seconds) range over 0..MaxSecs; files carry mtime 1.
MaxSecs == 2
\* Longest chunk sequence an inner body yields.
MaxChunks == 3
\* Largest chunk length and largest Content-Length given to a LoggableBody.
MaxChunkLen == 2
\* poll_data calls observed on one LoggableBody.
MaxPolls == 5

-----------------------------------------------------------------------------
(* Option values: None is the empty sequence, Some(x) a one-element one. *)

None == <<>>
Some(x) == <<x>>
IsSome(o) == o /= <<>>
Unwrap(o) == o[1]

Min(a, b) == IF a <= b THEN a ELSE b

\* u64 arithmetic.  TLC integers are 32 bits wide, so the modulus stands in
\* for 2^64; every length and offset of the model is far below it.
U64Modulus == 2 ^ 24
U64Max == U64Modulus - 1
SaturatingSub(a, b) == IF a >= b THEN a - b ELSE 0
\* a - b and a + b overflow (panic with overflow checks, wrap without).
SubOverflows(a, b) == a < b
AddOverflows(a, b) == a + b > U64Max
WrappingSub(a, b) == (a - b + U64Modulus) % U64Modulus
WrappingAdd(a, b) == (a + b) % U64Modulus

-----------------------------------------------------------------------------
(* Time.  SystemTime carries sub-second precision; HTTP dates do not. *)

SystemTime(secs, subsec) == [secs |-> secs, subsec |-> subsec]
\* SystemTimeExt::timestamp: whole seconds since the epoch.
timestamp(t) == t.secs
\* An HTTP date (HttpDate) parsed from a header, as a SystemTime.
HttpDate(secs) == SystemTime(secs, 0)
\* LastModified::from(mtime): the header value drops the sub-second part.
LastModifiedFrom(mtime) == HttpDate(mtime.secs)

-----------------------------------------------------------------------------
(* Entity tags *)

EntityTag(weak, tag) == [weak |-> weak, tag |-> tag]
strong_eq(a, b) == ~a.weak /\ ~b.weak /\ a.tag = b.tag
weak_eq(a, b) == a.tag = b.tag
weak_ne(a, b) == ~weak_eq(a, b)

\* format!("\"{}-{}\"", mtime.timestamp(), size).parse::<ETag>()
MakeETag(mtime, size) == EntityTag(FALSE, <<timestamp(mtime), size>>)

\* If-Match / If-None-Match header values.
HeaderAbsent == [kind |-> "absent", tags |-> {}]
HeaderAny == [kind |-> "any", tags |-> {}]
HeaderItems(tags) == [kind |-> "items", tags |-> tags]

-----------------------------------------------------------------------------
(* Conditional requests (src/http/conditional_requests.rs) *)

check_if_match(etag, if_match) ==
    IF if_match.kind = "any" THEN TRUE
    ELSE \E tag \in if_match.tags : strong_eq(tag, etag)

check_if_none_match(etag, if_none_match) ==
    IF if_none_match.kind = "any" THEN FALSE
    ELSE \A tag \in if_none_match.tags : weak_ne(tag, etag)

\* As check_if_unmodified_since, but sub-second precision is kept.
check_if_unmodified_since_subsec(last_modified, since) ==
    \/ last_modified.secs < since.secs
    \/ last_modified.secs = since.secs /\ last_modified.subsec <= since.subsec

check_if_unmodified_since(last_modified, since) ==
    timestamp(last_modified) <= timestamp(since)

check_if_modified_since(last_modified, since) ==
    ~check_if_unmodified_since(last_modified, since)

\* As is_method_get_head, but HEAD is forgotten.
is_method_get_head_only_get(method) == method = "GET"

is_method_get_head(method) == method \in {"GET", "HEAD"}

is_precondition_failed(r, etag, last_modified) ==
    LET inm_fails == r.if_none_match.kind /= "absent"
                     /\ ~is_method_get_head(r.method)
        \* 1. Evaluate If-Match
        step1 == IF r.if_match.kind /= "absent"
                 THEN IF check_if_match(etag, r.if_match)
                      THEN inm_fails
                      ELSE TRUE
                 ELSE FALSE
        \* 2. Evaluate If-Unmodified-Since
        step2 == IF IsSome(r.if_unmodified_since)
                 THEN IF check_if_unmodified_since(last_modified,
                                                   Unwrap(r.if_unmodified_since))
                      THEN inm_fails
                      ELSE TRUE
                 ELSE FALSE
    IN  IF step1 THEN TRUE
        ELSE IF step2 THEN TRUE
        \* 3. Evaluate If-None-Match
        ELSE inm_fails

is_fresh(r, etag, last_modified) ==
    IF r.if_none_match.kind /= "absent"
    THEN ~check_if_none_match(etag, r.if_none_match)
    ELSE IF IsSome(r.if_modified_since)
    THEN ~check_if_modified_since(last_modified, Unwrap(r.if_modified_since))
    ELSE FALSE

-----------------------------------------------------------------------------
(* Range requests (src/http/range_requests.rs) *)

Unbounded == [b |-> "Unbounded", v |-> 0]
Included(n) == [b |-> "Included", v |-> n]

\* If-Range carries either an entity tag or a date.
IfRangeETag(t) == [kind |-> "etag", etag |-> t, date |-> HttpDate(0)]
IfRangeDate(d) == [kind |-> "date", etag |-> EntityTag(FALSE, <<0, 0>>), date |-> d]

\* headers::IfRange::is_modified, called with Some(etag), Some(last_modified).
IfRange_is_modified(if_range, etag, last_modified) ==
    IF if_range.kind = "date"
    THEN timestamp(if_range.date) < timestamp(last_modified)
    ELSE ~strong_eq(etag, if_range.etag)

is_range_fresh(r, etag, last_modified) ==
    IF ~IsSome(r.range) THEN FALSE
    ELSE IF IsSome(r.if_range)
    THEN ~IfRange_is_modified(Unwrap(r.if_range), etag, last_modified)
    ELSE TRUE

\* headers::ContentRange::bytes(range, complete_length).  An unbounded end
\* computes complete_length - 1; on underflow the build decides: with
\* overflow checks (checks = TRUE) the call panics, without them it wraps.
Panic == [panic |-> TRUE, range |-> <<0, 0>>, complete_length |-> 0]
ContentRange(start, end, complete_length) ==
    [panic |-> FALSE, range |-> <<start, end>>, complete_length |-> complete_length]

ContentRange_bytes(first, last, complete_length, checks) ==
    LET start == IF first.b = "Included" THEN first.v ELSE 0
    IN  IF last.b = "Included"
        THEN ContentRange(start, last.v, complete_length)
        ELSE IF SubOverflows(complete_length, 1) /\ checks
        THEN Panic
        ELSE ContentRange(start, WrappingSub(complete_length, 1), complete_length)

\* Option<ContentRange>; Some(Panic) stands for a call that panicked.
is_satisfiable_range(range, complete_length, checks) ==
    IF Len(range) /= 1
    THEN None       \* multiple byte-range-spec (or none): drop
    ELSE LET first == range[1][1]
             last == range[1][2]
         IN  IF first.b = "Included" /\ last.b = "Included"
                /\ first.v <= last.v /\ first.v < complete_length
             THEN Some(ContentRange_bytes(
                        first,
                        Included(Min(last.v, SaturatingSub(complete_length, 1))),
                        complete_length, checks))
             ELSE IF first.b = "Included" /\ last.b = "Unbounded"
                     /\ first.v < complete_length
             THEN Some(ContentRange_bytes(first, Unbounded, complete_length, checks))
             ELSE IF first.b = "Unbounded" /\ last.b = "Included" /\ last.v > 0
             THEN Some(ContentRange_bytes(
                        Included(SaturatingSub(complete_length, last.v)),
                        Unbounded, complete_length, checks))
             ELSE None

-----------------------------------------------------------------------------
(* Paths.  A path is a sequence of components; `lead' is the first          *)
(* character of the component's name and `ext' its extension.               *)

Normal(name, lead, ext) == [kind |-> "Normal", name |-> name, lead |-> lead, ext |-> ext]
ParentDir == [kind |-> "ParentDir", name |-> "..", lead |-> ".", ext |-> ""]

\* Path::starts_with: component-wise prefix.
starts_with(path, base) ==
    Len(base) <= Len(path) /\ SubSeq(path, 1, Len(base)) = base

\* PathExt::is_relatively_hidden
is_relatively_hidden(path) ==
    \E i \in DOMAIN path : path[i].kind = "Normal" /\ path[i].lead = "."

\* Path::file_name: None when the path ends in `..' (or is empty).
file_name(path) ==
    IF Len(path) > 0 /\ path[Len(path)].kind = "Normal"
    THEN Some(path[Len(path)].name) ELSE None

-----------------------------------------------------------------------------
(* The file system the server runs on.  The serving root is /srv/www.       *)

Root == <<Normal("srv", "s", ""), Normal("www", "w", "")>>
\* A second tree, /srv/.www, for a server started on a dot directory.
DotRoot == <<Normal("srv", "s", ""), Normal(".www", ".", "")>>

file_txt == Normal("file.txt", "f", "txt")
empty_txt == Normal("empty.txt", "e", "txt")
img_png == Normal("img.png", "i", "png")
clip_mp4 == Normal("clip.mp4", "c", "mp4")
readme == Normal("README", "R", "")
hidden_html == Normal(".hidden.html", ".", "html")
hidden_dir == Normal(".hidden", ".", "")
nested_html == Normal("nested.html", "n", "html")
gitignore_file == Normal(".gitignore", ".", "")
ignore_pattern == Normal("ignore_pattern", "i", "")
dir == Normal("dir", "d", "")
a_txt == Normal("a.txt", "a", "txt")
link == Normal("link", "l", "")
secret == Normal("secret", "s", "")
index_html == Normal("index.html", "i", "html")
pics_png == Normal("pics.png", "p", "png")
site == Normal("site", "s", "")
missing == Normal("missing", "m", "")
ghost == Normal(".ghost", ".", "")
etc_passwd == <<Normal("etc", "e", ""), Normal("passwd", "p", "")>>

\* mtime of every file: one second and a fraction past the epoch.
Mtime == SystemTime(1, 5)

File(path, size, seed) ==
    [path |-> path, is_dir |-> FALSE, symlink |-> FALSE, canon |-> path,
     size |-> size, seed |-> seed, mtime |-> Mtime]
Dir(path) ==
    [path |-> path, is_dir |-> TRUE, symlink |-> FALSE, canon |-> path,
     size |-> 0, seed |-> 0, mtime |-> Mtime]
Symlink(path, target) ==
    [target EXCEPT !.path = path, !.symlink = TRUE]

Passwd == File(etc_passwd, 2, 70)

Fs == {
    Dir(Root),
    File(Root \o <<gitignore_file>>, 1, 10),
    File(Root \o <<file_txt>>, MaxLen, 0),
    File(Root \o <<empty_txt>>, 0, 0),
    File(Root \o <<img_png>>, 2, 20),
    File(Root \o <<clip_mp4>>, 1, 30),
    File(Root \o <<readme>>, 1, 40),
    File(Root \o <<hidden_html>>, 1, 50),
    Dir(Root \o <<hidden_dir>>),
    File(Root \o <<hidden_dir, nested_html>>, 1, 60),
    File(Root \o <<ignore_pattern>>, 1, 80),
    Dir(Root \o <<dir>>),
    File(Root \o <<dir, a_txt>>, 1, 90),
    Dir(Root \o <<pics_png>>),
    Dir(Root \o <<site>>),
    File(Root \o <<site, index_html>>, 1, 120),
    Dir(DotRoot),
    File(DotRoot \o <<file_txt>>, 1, 110),
    Symlink(Root \o <<link>>, Passwd),
    Passwd,
    \* /srv/www/../secret is /srv/secret
    [File(Root \o <<ParentDir, secret>>, 1, 100) EXCEPT
        !.canon = <<Normal("srv", "s", ""), secret>>]
}

\* Patterns of <root>/.gitignore, compiled once by InnerService::new.
GitignorePatterns == {"ignore_pattern"}

exists(path) == \E e \in Fs : e.path = path
metadata(path) == CHOOSE e \in Fs : e.path = path
is_dir(path) == exists(path) /\ metadata(path).is_dir
\* Path::canonicalize: Ok(canonical path), or Err for a path that is not there.
canonicalize(path) == IF exists(path) THEN Some(metadata(path).canon) ELSE None
\* The bytes of a regular file.
Contents(e) == [i \in 1..e.size |-> e.seed + i - 1]

\* PathExt::mtime (unwraps the metadata) and PathExt::size.
mtime(path) == metadata(path).mtime
size(path) == IF exists(path) THEN metadata(path).size ELSE 0

\* Gitignore::matched(path, is_dir).is_ignore(): a pattern without a slash
\* matches the last component of the path at any depth.
gitignore_matched(path) ==
    Len(path) > 0 /\ path[Len(path)].name \in GitignorePatterns

-----------------------------------------------------------------------------
(* MIME types (src/extensions.rs, mime_guess) *)

Mime(type, subtype, charset) == [type |-> type, subtype |-> subtype, charset |-> charset]
TEXT_HTML_UTF_8 == Mime("text", "html", "utf-8")
TEXT_PLAIN_UTF_8 == Mime("text", "plain", "utf-8")
APPLICATION_OCTET_STREAM == Mime("application", "octet-stream", "")

\* mime_guess::from_path(path).first(): by extension only.
mime(path) ==
    LET ext == IF Len(path) > 0 THEN path[Len(path)].ext ELSE ""
    IN  CASE ext = "txt" -> Some(Mime("text", "plain", ""))
          [] ext = "html" -> Some(Mime("text", "html", ""))
          [] ext = "png" -> Some(Mime("image", "png", ""))
          [] ext = "mp4" -> Some(Mime("video", "mp4", ""))
          [] OTHER -> None

\* MimeExt::guess_charset: text-like types are taken to be UTF-8.
guess_charset(m) == IF m.type = "text" THEN Some("utf-8") ELSE None

\* MimeExt::is_compressed_format
is_compressed_format(m) ==
    \/ m.type \in {"video", "audio"}
    \/ m.subtype \in {"gif", "jpeg", "png"}

-----------------------------------------------------------------------------
(* Content-encoding negotiation (src/http/content_encoding.rs) *)

IDENTITY == "identity"
DEFLATE == "deflate"
GZIP == "gzip"
BR == "br"

\* One comma-separated entry of Accept-Encoding: the token before `;' and,
\* when there is one, the text after it.
Entry(content, param) == [content |-> content, param |-> param]

\* s.trim_start_matches("q=").parse::<f32>().ok().map(|num| (num * 1000.0) as u32)
\* on the parameter texts the model uses.
ParseWeight ==
    ("q=1" :> Some(1000)) @@ ("q=0" :> Some(0)) @@ ("q=0.5" :> Some(500)) @@
    ("q=0.8" :> Some(800)) @@ ("q=1.5" :> Some(1500)) @@ ("1234asd" :> None)

\* Rank of Encoding::from(token) in the enum order.
EncodingRank(token) ==
    CASE token = DEFLATE -> 1
      [] token = GZIP -> 2
      [] token = BR -> 3
      [] OTHER -> 0

encoding_to_static_str(encoding) ==
    IF encoding \in {DEFLATE, GZIP, BR} THEN encoding ELSE IDENTITY

QualityValue(content, weight) == [content |-> content, weight |-> weight]

\* As sort_encoding, but only the weights are compared.
sort_encoding_weight_only(a, b) ==
    IF a.weight < b.weight THEN "Less"
    ELSE IF a.weight > b.weight THEN "Greater"
    ELSE "Equal"

sort_encoding(a, b) ==
    IF a.weight < b.weight THEN "Less"
    ELSE IF a.weight > b.weight THEN "Greater"
    ELSE IF EncodingRank(a.content) < EncodingRank(b.content) THEN "Less"
    ELSE IF EncodingRank(a.content) > EncodingRank(b.content) THEN "Greater"
    ELSE "Equal"

\* Option<QualityValue>: None for an empty entry.
parse_qvalue(q) ==
    IF q.content = "" /\ ~IsSome(q.param) THEN None
    ELSE LET weight ==
                 IF IsSome(q.param)
                 THEN LET parsed == ParseWeight[Unwrap(q.param)]
                      IN  IF IsSome(parsed) /\ Unwrap(parsed) <= 1000
                          THEN Unwrap(parsed) ELSE 0
                 ELSE 1000
         IN  Some(QualityValue(q.content, weight))

\* accept_encoding.split(',').filter_map(parse_qvalue).collect()
filter_map_parse_qvalue(accept_encoding) ==
    LET kept(e) == IsSome(parse_qvalue(e))
        entries == SelectSeq(accept_encoding, kept)
    IN  [i \in DOMAIN entries |-> Unwrap(parse_qvalue(entries[i]))]

\* The place element i of v takes in quality_values.sort_unstable_by(sort_encoding).
\* Elements that compare Equal keep their order here; they carry the same
\* Encoding, so whichever order they take, the static str of the last
\* element is the same.
sorted_index(v, i) ==
    Cardinality({j \in DOMAIN v :
        \E o \in {sort_encoding(v[j], v[i])} :
            o = "Less" \/ (o = "Equal" /\ j < i)}) + 1

sort_unstable_by(v) ==
    [k \in DOMAIN v |-> v[CHOOSE i \in DOMAIN v : sorted_index(v, i) = k]]

get_prior_encoding(accept_encoding) ==
    CHOOSE out \in {IF quality_values = <<>> THEN IDENTITY
                    ELSE encoding_to_static_str(
                            quality_values[Len(quality_values)].content) :
                quality_values \in
                    {sort_unstable_by(filter_map_parse_qvalue(accept_encoding))}} :
        TRUE

-----------------------------------------------------------------------------
(* Bodies and body senders (src/server/send.rs) *)

\* A body: what kind of stream it is, the items it yields, and the codec
\* a compressing wrapper applies to them (None when there is no wrapper).
Body(kind, data) == [kind |-> kind, data |-> data, coding |-> None]
EmptyBody == Body("empty", <<>>)

\* send_file: the whole file and its length.
send_file(path) ==
    [kind |-> "ok", body |-> Body("file", Contents(metadata(path))),
     size |-> metadata(path).size]

\* As send_file_with_range, but the reader takes end - start bytes.
send_file_with_range_short(path, range, checks) ==
    LET start == range[1]
        end == range[2]
        len == metadata(path).size
        max_end == WrappingSub(len, 1)
        take == end - start
        stop == Min(len, start + take)
    IN  IF end < start THEN [kind |-> "err", body |-> EmptyBody, size |-> 0]
        ELSE IF checks /\ SubOverflows(len, 1)
        THEN [kind |-> "panic", body |-> EmptyBody, size |-> 0]
        ELSE [kind |-> "ok",
              body |-> Body("file", SubSeq(Contents(metadata(path)), start + 1, stop)),
              size |-> IF start > max_end THEN 0
                       ELSE Min(end, max_end) - start + 1]

\* send_file_with_range(path, (start, end)): seek to start, take
\* end - start + 1 bytes.
send_file_with_range(path, range, checks) ==
    LET start == range[1]
        end == range[2]
        len == metadata(path).size
        max_end == WrappingSub(len, 1)
        take == WrappingAdd(end - start, 1)
        stop == Min(len, start + take)
    IN  IF end < start THEN [kind |-> "err", body |-> EmptyBody, size |-> 0]
        ELSE IF checks /\ (SubOverflows(len, 1) \/ AddOverflows(end - start, 1))
        THEN [kind |-> "panic", body |-> EmptyBody, size |-> 0]
        ELSE [kind |-> "ok",
              body |-> Body("file", SubSeq(Contents(metadata(path)), start + 1, stop)),
              size |-> IF start > max_end THEN 0
                       ELSE Min(end, max_end) - start + 1]

\* Rank of a PathType in the enum order Dir < SymlinkDir < File < SymlinkFile.
PathTypeRank(t) ==
    CASE t = "Dir" -> 0 [] t = "SymlinkDir" -> 1 [] t = "File" -> 2 [] t = "SymlinkFile" -> 3

\* PathExt::type_
type_(e) ==
    IF e.symlink THEN (IF e.is_dir THEN "SymlinkDir" ELSE "SymlinkFile")
    ELSE (IF e.is_dir THEN "Dir" ELSE "File")

\* Names in byte-wise lexicographic order, as String's Ord compares them.
NameOrder == <<"..", ".gitignore", ".hidden", ".hidden.html", "README", "a.txt",
               "clip.mp4", "dir", "empty.txt", "file.txt", "ignore_pattern",
               "img.png", "index.html", "link", "nested.html", "passwd",
               "pics.png", "secret", "site">>
NameRank(name) == CHOOSE i \in DOMAIN NameOrder : NameOrder[i] = name

Item(path_type, name, path) == [path_type |-> path_type, name |-> name, path |-> path]
\* Item's derived Ord: by path_type, then name (names in a listing differ).
ItemLeq(a, b) ==
    \/ PathTypeRank(a.path_type) < PathTypeRank(b.path_type)
    \/ /\ a.path_type = b.path_type
       /\ NameRank(a.name) <= NameRank(b.name)

\* The least item first, then the rest in order.  (Values used more than
\* once are bound through a one-element set, so that they are computed once.)
RECURSIVE SortItems(_)
SortItems(S) ==
    IF S = {} THEN <<>>
    ELSE CHOOSE sorted \in
            {<<m>> \o SortItems(S \ {m}) :
                m \in {CHOOSE x \in S : \A y \in S : ItemLeq(x, y)}} : TRUE

\* Entries a walk below dir_path yields: an entry is dropped, and not
\* descended into, when it is hidden (unless show_all) or ignored (when
\* with_ignore); symbolic links are yielded but not followed.
Walked(dir_path, with_ignore, show_all, depth) ==
    {e \in Fs :
        /\ starts_with(e.path, dir_path)
        /\ Len(e.path) > Len(dir_path)
        /\ IsSome(depth) => Len(e.path) <= Len(dir_path) + Unwrap(depth)
        /\ \A i \in (Len(dir_path) + 1)..Len(e.path) :
              /\ show_all \/ e.path[i].lead /= "."
              /\ e.path[i].kind = "Normal"
              /\ ~with_ignore \/ ~gitignore_matched(SubSeq(e.path, 1, i))
              /\ i < Len(e.path) =>
                    \E p \in Fs : p.path = SubSeq(e.path, 1, i)
                                  /\ p.is_dir /\ ~p.symlink}

\* send_dir: the rendered page (one item of output for the page frame, one
\* per listed entry) and its length.
send_dir(dir_path, base_path, show_all, with_ignore, path_prefix) ==
    LET files_iter ==
            {Item(type_(e), e.path[Len(e.path)].name,
                  <<path_prefix, SubSeq(e.path, Len(base_path) + 1, Len(e.path))>>) :
                e \in Walked(dir_path, with_ignore, show_all, Some(1))}
        parent == Item("Dir", "..",
                       <<path_prefix,
                         SubSeq(dir_path, Len(base_path) + 1, Len(dir_path) - 1)>>)
        files == IF base_path = dir_path THEN SortItems(files_iter)
                 ELSE SortItems({parent} \cup files_iter)
    IN  CHOOSE sent \in
            {[kind |-> "ok", body |-> Body("listing", content), size |-> Len(content)] :
                content \in {<<"<!DOCTYPE html>">> \o files}} : TRUE

\* send_dir_as_zip: one archive member per walked entry, named relative to
\* dir_path; a member that is not a directory carries the bytes that
\* opening its path yields.
send_dir_as_zip(dir_path, show_all, with_ignore) ==
    LET members == {[name |-> SubSeq(e.path, Len(dir_path) + 1, Len(e.path)),
                     is_dir |-> e.is_dir,
                     data |-> IF e.is_dir THEN <<>> ELSE Contents(e)] :
                       e \in Walked(dir_path, with_ignore, show_all, None)}
    IN  CHOOSE sent \in
            {[kind |-> "ok", body |-> Body("zip", zip), size |-> Len(zip)] :
                zip \in {SortItems({Item(IF m.is_dir THEN "Dir" ELSE "File",
                                         m.name[Len(m.name)].name, m) :
                                        m \in members})}} : TRUE

-----------------------------------------------------------------------------
(* Responses and the response factory (src/server/res.rs) *)

DefaultResponse ==
    [status |-> 200, body |-> EmptyBody,
     server |-> None, content_length |-> None, content_range |-> None,
     content_encoding |-> None, vary |-> None, etag |-> None,
     last_modified |-> None, cache_control |-> None, content_type |-> None,
     accept_ranges |-> None, content_disposition |-> None,
     access_control_allow_origin |-> None,
     access_control_allow_headers |-> None,
     cross_origin_embedder_policy |-> None,
     cross_origin_opener_policy |-> None]

with_text(r, status, body) ==
    [r EXCEPT !.status = status,
              !.content_length = Some(Len(body)),
              !.body = Body("text", <<body>>)]

not_modified(r) == [r EXCEPT !.status = 304]
forbidden(r) == with_text(r, 403, "403 Forbidden")
not_found(r) == with_text(r, 404, "404 Not Found")
precondition_failed(r) == with_text(r, 412, "412 Precondition Failed")
internal_server_error(r) == with_text(r, 500, "500 Internal Server Error")

-----------------------------------------------------------------------------
(* InnerService (src/server/serve.rs) *)

SERVER_VERSION == "sfz"

\* A decoded request path: whether percent-decoding gave valid UTF-8,
\* whether what follows the first slash is itself absolute, and its
\* components.
UriPath(comps) == [valid |-> TRUE, absolute |-> FALSE, comps |-> comps]

\* Option<path>: the request path without the configured prefix.
strip_path_prefix(a, p) ==
    IF IsSome(a.path_prefix)
    THEN IF ~p.absolute /\ starts_with(p.comps, Unwrap(a.path_prefix))
         THEN Some([p EXCEPT !.comps = SubSeq(p.comps, Len(Unwrap(a.path_prefix)) + 1,
                                              Len(p.comps))])
         ELSE None
    ELSE Some(p)

\* PathBuf::join: an absolute argument replaces the base.
join(base, p) == IF p.absolute THEN p.comps ELSE base \o p.comps

\* As file_path_from_path, but index.html is appended only when the
\* directory has one.
file_path_from_path_if_index_exists(a, p) ==
    IF ~p.valid THEN [err |-> TRUE, path |-> None]
    ELSE LET stripped_path == strip_path_prefix(a, p)
         IN  IF ~IsSome(stripped_path) THEN [err |-> FALSE, path |-> None]
             ELSE LET path == join(a.path, Unwrap(stripped_path))
                  IN  [err |-> FALSE,
                       path |-> Some(IF /\ a.render_index /\ is_dir(path)
                                        /\ exists(path \o <<index_html>>)
                                     THEN path \o <<index_html>>
                                     ELSE path)]

\* Result<Option<PathBuf>, Utf8Error>
file_path_from_path(a, p) ==
    IF ~p.valid THEN [err |-> TRUE, path |-> None]
    ELSE LET stripped_path == strip_path_prefix(a, p)
         IN  IF ~IsSome(stripped_path) THEN [err |-> FALSE, path |-> None]
             ELSE LET path == join(a.path, Unwrap(stripped_path))
                  IN  [err |-> FALSE,
                       path |-> Some(IF a.render_index /\ is_dir(path)
                                     THEN path \o <<index_html>>
                                     ELSE path)]

enable_cache_control(a, r) == [r EXCEPT !.cache_control = Some(<<"public", a.cache>>)]

enable_cors(a, r) ==
    IF a.cors
    THEN [r EXCEPT !.access_control_allow_origin = Some("*"),
                   !.access_control_allow_headers =
                        Some(<<"range", "content-type", "accept", "origin">>)]
    ELSE r

enable_coi(a, r) ==
    IF a.coi
    THEN [r EXCEPT !.cross_origin_embedder_policy = Some("require-corp"),
                   !.cross_origin_opener_policy = Some("same-origin")]
    ELSE r

\* As can_compress, but partial responses are not excluded.
can_compress_any_status(a, status, m) ==
    a.compress /\ ~is_compressed_format(m)

can_compress(a, status, m) ==
    a.compress /\ status /= 206 /\ ~is_compressed_format(m)

\* As path_is_hidden, but only the last component is looked at.
path_is_hidden_basename(a, path) ==
    ~a.all /\ Len(path) > 0 /\ path[Len(path)].kind = "Normal"
           /\ path[Len(path)].lead = "."

path_is_hidden(a, path) == ~a.all /\ is_relatively_hidden(path)
path_is_ignored(a, path) == a.ignore /\ gitignore_matched(path)
path_exists(a, path) ==
    exists(path) /\ ~path_is_hidden(a, path) /\ ~path_is_ignored(a, path)

\* As path_is_under_basepath, but the path is not canonicalized.
path_is_under_basepath_lexical(a, path) ==
    exists(path) /\ starts_with(path, a.path)

path_is_under_basepath(a, path) ==
    IF IsSome(canonicalize(path))
    THEN starts_with(Unwrap(canonicalize(path)), a.path)
    ELSE FALSE

guess_path_mime(path, action) ==
    IF IsSome(mime(path))
    THEN LET x == Unwrap(mime(path))
         IN  IF x.charset /= "" THEN x
             ELSE IF IsSome(guess_charset(x))
             THEN [x EXCEPT !.charset = Unwrap(guess_charset(x))]
             ELSE x
    ELSE CASE action = "ListDir" -> TEXT_HTML_UTF_8
           [] action = "DownloadFile" -> TEXT_PLAIN_UTF_8
           [] action = "DownloadZip" -> APPLICATION_OCTET_STREAM

\* What handle_request hands back: Ok(res), Err, or a panic that unwinds the
\* task; with it the locals the claims speak of.
Locals(exit, path, action, content_length) ==
    [exit |-> exit, path |-> path, action |-> action, content_length |-> content_length]
Returned(kind, r, l) == [kind |-> kind, res |-> r, local |-> l]

\* As compress_wrap, but without the Vary header.
compress_wrap_no_vary(res0, body0, enc, encoding) ==
    [res0 EXCEPT !.body = [body0 EXCEPT !.coding = Some(enc)],
                 !.content_encoding = Some(encoding)]

\* Lines 421-437: wrap the body in a compressor and announce the codec.
compress_wrap(res0, body0, enc, encoding) ==
    [res0 EXCEPT !.body = [body0 EXCEPT !.coding = Some(enc)],
                 !.content_encoding = Some(encoding),
                 !.vary = Some("accept-encoding")]

\* Lines 410-458: MIME, compression wrap, Content-Length, common headers.
finish(a, r, path, action, res0, body0, content_length) ==
    LET mime_type == guess_path_mime(path, action)
        encoding == IF IsSome(r.accept_encoding)
                    THEN get_prior_encoding(Unwrap(r.accept_encoding))
                    ELSE ""
        enc == encoding_to_static_str(encoding)
        res1 == IF can_compress(a, res0.status, mime_type)
                THEN IF enc \in {BR, DEFLATE, GZIP}
                     THEN compress_wrap(res0, body0, enc, encoding)
                     ELSE [res0 EXCEPT !.body = body0]
                ELSE IF IsSome(content_length)
                     THEN [res0 EXCEPT !.body = body0,
                                       !.content_length = content_length]
                     ELSE [res0 EXCEPT !.body = body0]
        res2 == [res1 EXCEPT !.accept_ranges = Some("bytes"),
                             !.content_type = Some(mime_type)]
    IN  Returned("ok", res2, Locals("done", Some(path), action, content_length))

\* As select_status, but freshness is looked at before the preconditions.
select_status_fresh_first(failed, fresh, partial) ==
    IF fresh THEN 304
    ELSE IF failed THEN 412
    ELSE IF partial THEN 206
    ELSE 200

\* Lines 351-389: the order in which the DownloadFile arm decides the status.
select_status(failed, fresh, partial) ==
    IF failed THEN 412
    ELSE IF fresh THEN 304
    ELSE IF partial THEN 206
    ELSE 200

\* Lines 338-392: the DownloadFile arm.
download_file(a, r, path, res0, checks, gone) ==
    LET res1 == enable_cache_control(a, res0)
        mt == mtime(path)
        sz == size(path)
        last_modified == LastModifiedFrom(mt)
        etag == MakeETag(mt, sz)
        validated(x) == [x EXCEPT !.last_modified = Some(last_modified),
                                  !.etag = Some(etag)]
        l(exit) == Locals(exit, Some(path), "DownloadFile", None)
        sat == IF IsSome(r.range)
               THEN is_satisfiable_range(Unwrap(r.range), sz, checks)
               ELSE None
        status == select_status(
                      is_precondition_failed(r, etag, mt),
                      is_fresh(r, etag, mt),
                      IsSome(r.range) /\ is_range_fresh(r, etag, last_modified)
                          /\ IsSome(sat))
    IN  \* Line 343: path.mtime() unwraps the error of a failed metadata read.
        IF gone THEN Returned("panic", DefaultResponse, l("panic"))
        ELSE
        CASE status = 412 -> Returned("ok", precondition_failed(res1), l("412"))
          [] status = 304 -> Returned("ok", not_modified(validated(res1)), l("304"))
          [] OTHER ->
                IF IsSome(sat) /\ Unwrap(sat).panic
                THEN Returned("panic", DefaultResponse, l("panic"))
                ELSE IF status = 206
                THEN LET content_range == Unwrap(sat)
                         sent == send_file_with_range(path, content_range.range, checks)
                     IN  IF sent.kind /= "ok"
                         THEN Returned(sent.kind, DefaultResponse, l(sent.kind))
                         ELSE finish(a, r, path, "DownloadFile",
                                     validated([res1 EXCEPT
                                         !.content_range = Some(content_range),
                                         !.status = 206]),
                                     sent.body, None)
                ELSE LET sent == send_file(path)
                     IN  finish(a, r, path, "DownloadFile", validated(res1),
                                sent.body, Some(sent.size))

\* As select_action, but zip is taken on any path and any other value is
\* ignored.
select_action_lenient(r, path) ==
    IF IsSome(r.action) /\ Unwrap(r.action) = "zip" THEN "DownloadZip"
    ELSE IF is_dir(path) THEN "ListDir" ELSE "DownloadFile"

\* Lines 278-304: the action of the request; "" stands for
\* bail!("error: invalid action").
select_action(r, path) ==
    IF IsSome(r.action)
    THEN IF Unwrap(r.action) = "zip" /\ is_dir(path) THEN "DownloadZip" ELSE ""
    ELSE IF is_dir(path) THEN "ListDir" ELSE "DownloadFile"

handle_request(a, r, checks, gone) ==
    LET res0 == [DefaultResponse EXCEPT !.server = Some(SERVER_VERSION)]
        resolved == file_path_from_path(a, r.path)
    IN  IF resolved.err
        THEN Returned("err", res0, Locals("err", None, "", None))
        ELSE IF ~IsSome(resolved.path)
        THEN Returned("ok", not_found(res0), Locals("prefix", None, "", None))
        ELSE
        LET path == Unwrap(resolved.path)
            action == select_action(r, path)
            res1 == enable_coi(a, enable_cors(a, res0))
        IN  IF action = ""
            THEN Returned("err", res0, Locals("err", Some(path), "", None))
            ELSE IF ~path_exists(a, path)
            THEN Returned("ok", not_found(res1), Locals("404", Some(path), action, None))
            ELSE IF ~a.follow_links /\ ~path_is_under_basepath(a, path)
            THEN Returned("ok", forbidden(res1), Locals("403", Some(path), action, None))
            ELSE CASE action = "ListDir" ->
                        CHOOSE out \in
                            {finish(a, r, path, action, res1, sent.body, Some(sent.size)) :
                                sent \in {send_dir(path, a.path, a.all, a.ignore,
                                                   a.path_prefix)}} : TRUE
                   [] action = "DownloadFile" ->
                        download_file(a, r, path, res1, checks, gone)
                   [] action = "DownloadZip" ->
                        IF ~IsSome(file_name(path))
                        THEN Returned("panic", DefaultResponse,
                                      Locals("panic", Some(path), action, None))
                        ELSE CHOOSE out \in
                            {finish(a, r, path, action,
                                    [res1 EXCEPT !.content_disposition =
                                        Some(<<"attachment", Unwrap(file_name(path)), ".zip">>)],
                                    sent.body, Some(sent.size)) :
                                sent \in {send_dir_as_zip(path, a.all, a.ignore)}} : TRUE

\* InnerService::call: an Err becomes a fresh 500 response; a panic sends
\* nothing (status 0).  `gone' is whether the target is removed after the
\* gates and before its metadata is read.
call(a, r, checks, gone) ==
    CHOOSE returned \in
        {CASE out.kind = "ok" -> out
           [] out.kind = "err" ->
                 Returned("err", internal_server_error(DefaultResponse), out.local)
           [] out.kind = "panic" ->
                 Returned("panic", [DefaultResponse EXCEPT !.status = 0],
                          [out.local EXCEPT !.exit = "panic"]) :
            out \in {handle_request(a, r, checks, gone)}} : TRUE

-----------------------------------------------------------------------------
(* Requests the model sends *)

Methods == {"GET", "HEAD", "POST"}
Dates == {HttpDate(secs) : secs \in 0..MaxSecs}
OptDates == {None} \cup {Some(d) : d \in Dates}

\* Entity tags a client may hold: the tag of file.txt, a stale one, and the
\* weak form of each.
FileTag == MakeETag(Mtime, MaxLen)
Tags == {EntityTag(weak, tag) : weak \in BOOLEAN, tag \in {<<1, MaxLen>>, <<0, MaxLen>>}}
TagHeaders(n) ==
    {HeaderAbsent, HeaderAny}
        \cup {HeaderItems(S) : S \in {T \in SUBSET Tags : Cardinality(T) \in 1..n}}

Bounds == {Unbounded} \cup {Included(n) : n \in 0..(MaxLen + 1)}
OneRange == Some(<<<<Included(0), Included(0)>>>>)
TwoRanges == Some(<<<<Included(0), Included(0)>>, <<Included(1), Included(1)>>>>)
Ranges == {Some(<<<<first, last>>>>) : first \in Bounds, last \in Bounds}
              \cup {TwoRanges}
IfRanges == {None} \cup {Some(IfRangeETag(t)) : t \in Tags}
                   \cup {Some(IfRangeDate(d)) : d \in Dates}

AcceptEncodings == {
    None,
    Some(<<Entry("", None)>>),
    Some(<<Entry(GZIP, None)>>),
    Some(<<Entry(DEFLATE, None)>>),
    Some(<<Entry(BR, Some("q=0.5")), Entry(GZIP, None), Entry(DEFLATE, Some("q=0.8"))>>),
    Some(<<Entry(IDENTITY, None)>>),
    Some(<<Entry(BR, Some("q=1.5")), Entry("compress", Some("q=0.5"))>>),
    Some(<<Entry(BR, None), Entry(GZIP, Some("1234asd"))>>)}

UriPaths ==
    {UriPath(comps) : comps \in {
        <<>>, <<file_txt>>, <<empty_txt>>, <<img_png>>, <<clip_mp4>>, <<readme>>,
        <<hidden_html>>, <<hidden_dir, nested_html>>, <<ignore_pattern>>,
        <<dir>>, <<dir, a_txt>>, <<link>>, <<missing>>, <<ghost>>,
        <<ParentDir, secret>>}}
    \cup {[UriPath(etc_passwd) EXCEPT !.absolute = TRUE],
          [UriPath(<<>>) EXCEPT !.valid = FALSE]}

Request(method, path) ==
    [method |-> method, path |-> path, action |-> None,
     if_match |-> HeaderAbsent, if_none_match |-> HeaderAbsent,
     if_modified_since |-> None, if_unmodified_since |-> None,
     range |-> None, if_range |-> None, accept_encoding |-> None]

\* Every target, method and action, with and without Accept-Encoding.
GateRequests ==
    {[Request(m, p) EXCEPT !.action = q, !.accept_encoding = ae] :
        m \in Methods, p \in UriPaths, q \in {None, Some("zip"), Some("tar")},
        ae \in {None, Some(<<Entry(GZIP, None)>>)}}

\* Every combination of the conditional headers on file.txt, with and
\* without a satisfiable Range.
ConditionalRequests ==
    {[Request(m, UriPath(<<file_txt>>)) EXCEPT
            !.if_match = im, !.if_none_match = inm,
            !.if_modified_since = ims, !.if_unmodified_since = ius,
            !.range = rg] :
        m \in Methods, im \in TagHeaders(1), inm \in TagHeaders(1),
        ims \in OptDates, ius \in OptDates, rg \in {None, OneRange}}

\* Every Range and If-Range on a file with bytes and on an empty one.
RangeRequests ==
    {[Request("GET", UriPath(<<f>>)) EXCEPT !.range = rg, !.if_range = ir] :
        f \in {file_txt, empty_txt}, rg \in Ranges, ir \in IfRanges}

\* Every Accept-Encoding on targets of each MIME class and action.
EncodingRequests ==
    {[Request("GET", UriPath(comps)) EXCEPT
            !.action = q, !.accept_encoding = ae, !.range = rg] :
        comps \in {<<>>, <<dir>>, <<file_txt>>, <<img_png>>, <<clip_mp4>>, <<readme>>},
        q \in {None, Some("zip")}, ae \in AcceptEncodings, rg \in {None, OneRange}}

Requests == GateRequests \cup ConditionalRequests \cup RangeRequests
                \cup EncodingRequests

\* The configurations the server is started with.
ArgsSet ==
    [path : {Root}, all : BOOLEAN, ignore : BOOLEAN, follow_links : BOOLEAN,
     compress : BOOLEAN, cors : BOOLEAN, coi : {FALSE}, cache : {0},
     render_index : {FALSE}, path_prefix : {None}]

-----------------------------------------------------------------------------
(* The request pipeline as a state machine *)

NoRequest == Request("", UriPath(<<>>))
NoLocals == Locals("init", None, "", None)
CondIdle == [evaluated |-> FALSE, req |-> NoRequest, etag |-> FileTag,
             last_modified |-> Mtime, fresh |-> FALSE, failed |-> FALSE]
LbIdle == [inner |-> <<>>, bytes_sent |-> 0, content_length |-> None,
           log |-> FALSE, lines |-> <<>>, out |-> <<>>, source |-> <<>>,
           dropped |-> FALSE]

RngIdle == [evaluated |-> FALSE, req |-> NoRequest, etag |-> FileTag,
            last_modified |-> LastModifiedFrom(Mtime), complete_length |-> 0,
            checks |-> FALSE, fresh |-> FALSE, sat |-> None]
NegIdle == [evaluated |-> FALSE, header |-> <<>>, result |-> ""]
LsIdle == [listed |-> FALSE, walk |-> <<>>, sub |-> FALSE, files |-> <<>>]
SndIdle == [sent |-> FALSE, path |-> <<>>, range |-> <<0, 0>>, checks |-> FALSE,
            out |-> [kind |-> "", body |-> EmptyBody, size |-> 0]]

Init ==
    /\ args \in ArgsSet
    /\ req = NoRequest
    /\ res = [DefaultResponse EXCEPT !.status = 0]
    /\ local = NoLocals
    /\ cond = CondIdle
    /\ lb = LbIdle
    /\ vanished = FALSE
    /\ ls = LsIdle
    /\ snd = SndIdle
    /\ rng = RngIdle
    /\ neg = NegIdle

\* InnerService::call on one request.  `checks' is whether the build has
\* arithmetic overflow checks.  The file system does not change while the
\* request is handled.
HandleRequest ==
    /\ local = NoLocals
    /\ \E r \in Requests, checks \in BOOLEAN :
        \E out \in {call(args, r, checks, FALSE)} :
            /\ req' = r
            /\ res' = out.res
            /\ local' = out.local
            /\ UNCHANGED <<args, cond, lb, rng, neg, vanished, ls, snd>>

\* The response has been handed to the connection; the service, which keeps
\* nothing between requests, waits for the next one.
AwaitRequest ==
    /\ local /= NoLocals
    /\ req' = NoRequest
    /\ res' = [DefaultResponse EXCEPT !.status = 0]
    /\ local' = NoLocals
    /\ UNCHANGED <<args, cond, lb, rng, neg, vanished, ls, snd>>

Next == HandleRequest \/ AwaitRequest

Spec == Init /\ [][Next]_vars

-----------------------------------------------------------------------------
(* The conditional-request evaluator on its own *)

\* The configuration the command line gives when no flag is passed.
DefaultArgs ==
    [path |-> Root, all |-> FALSE, ignore |-> TRUE, follow_links |-> FALSE,
     compress |-> TRUE, cors |-> FALSE, coi |-> FALSE, cache |-> 0,
     render_index |-> FALSE, path_prefix |-> None]

\* Tag lists hold up to MaxTags tags.
MaxTags == 2

CondInputs ==
    {[evaluated |-> FALSE,
      req |-> [Request(m, UriPath(<<file_txt>>)) EXCEPT
                  !.if_match = im, !.if_none_match = inm,
                  !.if_modified_since = ims, !.if_unmodified_since = ius],
      etag |-> FileTag, last_modified |-> lm,
      fresh |-> FALSE, failed |-> FALSE] :
        m \in Methods, im \in TagHeaders(MaxTags), inm \in TagHeaders(MaxTags),
        ims \in OptDates, ius \in OptDates,
        lm \in {SystemTime(1, 0), Mtime}}

InitCond ==
    /\ args = DefaultArgs
    /\ req = NoRequest
    /\ res = [DefaultResponse EXCEPT !.status = 0]
    /\ local = NoLocals
    /\ cond \in CondInputs
    /\ lb = LbIdle
    /\ vanished = FALSE
    /\ ls = LsIdle
    /\ snd = SndIdle
    /\ rng = RngIdle
    /\ neg = NegIdle

\* Apply is_precondition_failed and is_fresh to the drawn inputs.
Evaluate ==
    /\ ~cond.evaluated
    /\ cond' = [cond EXCEPT
            !.evaluated = TRUE,
            !.failed = is_precondition_failed(cond.req, cond.etag, cond.last_modified),
            !.fresh = is_fresh(cond.req, cond.etag, cond.last_modified)]
    /\ UNCHANGED <<args, req, res, local, lb, rng, neg, vanished, ls, snd>>

NextCond == Evaluate

SpecCond == InitCond /\ [][NextCond]_vars

-----------------------------------------------------------------------------
(* LoggableBody (src/http/loggable.rs) *)

\* Items an inner body yields: a data chunk of a given length, or an error.
Chunk(n) == [kind |-> "data", len |-> n]
ErrorItem == [kind |-> "error", len |-> 0]
Items == {Chunk(n) : n \in 0..MaxChunkLen} \cup {ErrorItem}
RECURSIVE SeqsUpTo(_, _)
SeqsUpTo(S, n) ==
    IF n = 0 THEN {<<>>}
    ELSE LET shorter == SeqsUpTo(S, n - 1)
         IN  shorter \cup {Append(q, x) : q \in {t \in shorter : Len(t) = n - 1}, x \in S}

\* LoggableBody::new and LoggableBody::with_content_length.  Beside the
\* struct's fields the record keeps what an observer sees: `source' is the
\* inner body as handed in, `lines' the log lines printed, `out' the value
\* each poll returned, `dropped' whether the body has been dropped.
LoggableBody_new(log, inner) ==
    [inner |-> inner, bytes_sent |-> 0, content_length |-> None, log |-> log,
     lines |-> <<>>, out |-> <<>>, source |-> inner, dropped |-> FALSE]
LoggableBody_with_content_length(log, inner, content_length) ==
    [LoggableBody_new(log, inner) EXCEPT !.content_length = Some(content_length)]

InitLog ==
    /\ args = DefaultArgs
    /\ req = NoRequest
    /\ res = [DefaultResponse EXCEPT !.status = 0]
    /\ local = NoLocals
    /\ cond = CondIdle
    /\ vanished = FALSE
    /\ ls = LsIdle
    /\ snd = SndIdle
    /\ \E log \in BOOLEAN, inner \in SeqsUpTo(Items, MaxChunks) :
          \/ lb = LoggableBody_new(log, inner)
          \/ \E content_length \in 0..(MaxChunkLen + 1) :
                lb = LoggableBody_with_content_length(log, inner, content_length)
    /\ rng = RngIdle
    /\ neg = NegIdle

\* What one poll of the inner body gives: Pending, an item, or end of stream.
Pending == [kind |-> "pending", len |-> 0]
EndOfStream == [kind |-> "none", len |-> 0]

\* As poll_data, but the chunk of the current poll is counted only after the
\* log line has been written.
poll_data_count_late(b, polled) ==
    IF polled = Pending
    THEN [b EXCEPT !.out = Append(@, [polled |-> polled, logged |-> FALSE,
                                      bytes_sent |-> b.bytes_sent])]
    ELSE LET rest == IF polled = EndOfStream THEN b.inner ELSE Tail(b.inner)
             bytes_sent == IF polled.kind = "data"
                           THEN b.bytes_sent + polled.len ELSE b.bytes_sent
             has_data == IF polled = EndOfStream THEN FALSE
                         ELSE IF IsSome(b.content_length)
                         THEN bytes_sent < Unwrap(b.content_length)
                         ELSE TRUE
             logged == ~has_data /\ b.log
         IN  [b EXCEPT !.inner = rest,
                       !.bytes_sent = bytes_sent,
                       !.lines = IF logged THEN Append(@, b.bytes_sent) ELSE @,
                       !.out = Append(@, [polled |-> polled, logged |-> logged,
                                          bytes_sent |-> bytes_sent])]

\* LoggableBody::poll_data.  `lines' collects the bytes_sent figure of each
\* log line printed; `out' what each call returned and whether it printed.
poll_data(b, polled) ==
    IF polled = Pending
    THEN [b EXCEPT !.out = Append(@, [polled |-> polled, logged |-> FALSE,
                                      bytes_sent |-> b.bytes_sent])]
    ELSE LET rest == IF polled = EndOfStream THEN b.inner ELSE Tail(b.inner)
             bytes_sent == IF polled.kind = "data"
                           THEN b.bytes_sent + polled.len ELSE b.bytes_sent
             has_data == IF polled = EndOfStream THEN FALSE
                         ELSE IF IsSome(b.content_length)
                         THEN bytes_sent < Unwrap(b.content_length)
                         ELSE TRUE
             logged == ~has_data /\ b.log
         IN  [b EXCEPT !.inner = rest,
                       !.bytes_sent = bytes_sent,
                       !.lines = IF logged THEN Append(@, bytes_sent) ELSE @,
                       !.out = Append(@, [polled |-> polled, logged |-> logged,
                                          bytes_sent |-> bytes_sent])]

\* The connection polls the body; the inner body is ready or not.  A body
\* that has returned end of stream or an error is not polled again.
PollData ==
    /\ ~lb.dropped
    /\ Len(lb.out) < MaxPolls
    /\ \A k \in DOMAIN lb.out : lb.out[k].polled \notin {EndOfStream, ErrorItem}
    /\ \E ready \in BOOLEAN :
          LET polled == IF ~ready THEN Pending
                        ELSE IF lb.inner = <<>> THEN EndOfStream
                        ELSE Head(lb.inner)
          IN  lb' = poll_data(lb, polled)
    /\ UNCHANGED <<args, req, res, local, cond, rng, neg, vanished, ls, snd>>

\* The connection goes away (or is done) and the body is dropped.
\* LoggableBody has no Drop implementation: nothing runs.
DropBody ==
    /\ ~lb.dropped
    /\ lb' = [lb EXCEPT !.dropped = TRUE]
    /\ UNCHANGED <<args, req, res, local, cond, rng, neg, vanished, ls, snd>>

NextLog == PollData \/ DropBody

SpecLog == InitLog /\ [][NextLog]_vars

-----------------------------------------------------------------------------
(* Properties of the request pipeline *)

\* The path handle_request resolved, and the file-system entry it names.
ResolvedPath == Unwrap(local.path)
Target == metadata(ResolvedPath)
\* The request was resolved to a path and an action was selected.
ActionSelected == IsSome(local.path) /\ local.action /= ""
\* Some normal component of the resolved path begins with a dot.
HasDotComponent ==
    \E i \in DOMAIN ResolvedPath :
        ResolvedPath[i].kind = "Normal" /\ ResolvedPath[i].lead = "."
\* The request passes the existence/visibility gate.
Visible ==
    /\ exists(ResolvedPath)
    /\ args.all \/ ~HasDotComponent
    /\ ~args.ignore \/ ~gitignore_matched(ResolvedPath)
\* The symlink-resolved form of the path lies outside the root.
OutsideRoot == ~starts_with(Target.canon, args.path)

\* C1: a request that reaches the escape gate (path resolved, action
\* selected, path existing and visible) for a path whose canonical form is
\* outside the root is answered 403 when follow_links is off, and is not
\* answered 403 when follow_links is on.
C1_EscapeGate ==
    (ActionSelected /\ Visible /\ OutsideRoot) =>
        IF args.follow_links THEN res.status /= 403 ELSE res.status = 403

C1_Witness ==
    /\ ActionSelected /\ Visible /\ OutsideRoot
    /\ ~args.follow_links /\ Target.symlink /\ res.status = 403

\* C2: once a path is resolved and an action selected, the answer is 404
\* exactly when the path does not exist, or all is off and a component
\* begins with a dot, or ignore is on and the .gitignore matches the path.
C2_VisibilityGate ==
    ActionSelected =>
        (res.status = 404 <=>
            \/ ~exists(ResolvedPath)
            \/ ~args.all /\ HasDotComponent
            \/ args.ignore /\ gitignore_matched(ResolvedPath))

C2_Witness ==
    /\ ActionSelected /\ exists(ResolvedPath) /\ Len(ResolvedPath) = Len(args.path) + 2
    /\ ~args.all /\ HasDotComponent /\ ~gitignore_matched(ResolvedPath)
    /\ res.status = 404

\* The validators handle_request computes for the target.
TargetETag == MakeETag(Target.mtime, Target.size)
TargetLastModified == LastModifiedFrom(Target.mtime)
\* A file download that passed both gates and returned a response.
FileDownload ==
    /\ ActionSelected /\ local.action = "DownloadFile"
    /\ local.exit \in {"412", "304", "done"}
Failed == is_precondition_failed(req, TargetETag, Target.mtime)
Fresh == is_fresh(req, TargetETag, Target.mtime)
Partial ==
    /\ IsSome(req.range)
    /\ is_range_fresh(req, TargetETag, TargetLastModified)
    /\ IsSome(is_satisfiable_range(Unwrap(req.range), Target.size, FALSE))

\* C3: a file download that passed the gates is answered 412 if the
\* preconditions fail, else 304 if fresh, else 206 if a Range is present,
\* range-fresh and satisfiable, else 200.
C3_Precedence ==
    FileDownload =>
        res.status = IF Failed THEN 412
                     ELSE IF Fresh THEN 304
                     ELSE IF Partial THEN 206
                     ELSE 200

C3_Witness == FileDownload /\ Failed /\ Fresh /\ Partial /\ res.status = 412

\* The request carries exactly one byte-range-spec a-b with both ends given.
ClosedRange ==
    /\ IsSome(req.range) /\ Len(Unwrap(req.range)) = 1
    /\ Unwrap(req.range)[1][1].b = "Included"
    /\ Unwrap(req.range)[1][2].b = "Included"
RangeFirst == Unwrap(req.range)[1][1].v
RangeLast == Unwrap(req.range)[1][2].v
\* If-Range is present and names the current representation: the strong
\* entity tag, or a date equal to Last-Modified.
IfRangeMatches ==
    /\ IsSome(req.if_range)
    /\ \/ /\ Unwrap(req.if_range).kind = "etag"
          /\ ~Unwrap(req.if_range).etag.weak
          /\ Unwrap(req.if_range).etag.tag = <<Target.mtime.secs, Target.size>>
       \/ /\ Unwrap(req.if_range).kind = "date"
          /\ Unwrap(req.if_range).date.secs = Target.mtime.secs
\* A file download past the gates whose preconditions pass and which is
\* not fresh.
RangeStep ==
    /\ ActionSelected /\ local.action = "DownloadFile"
    /\ local.exit \notin {"init", "404", "403"}
    /\ ~Failed /\ ~Fresh

\* C4: Range: bytes=a-b with 0 <= a <= b < size on such a download, with
\* If-Range absent or matching, gives 206, Content-Range a-b/size and the
\* bytes a..b of the file.
C4_RangeBody ==
    (/\ RangeStep /\ ClosedRange
     /\ RangeFirst <= RangeLast /\ RangeLast < Target.size
     /\ ~IsSome(req.if_range) \/ IfRangeMatches) =>
        /\ res.status = 206
        /\ res.content_range =
              Some(ContentRange(RangeFirst, RangeLast, Target.size))
        /\ res.body.coding = None
        /\ Len(res.body.data) = RangeLast - RangeFirst + 1
        /\ \A i \in 1..Len(res.body.data) :
              res.body.data[i] = Contents(Target)[RangeFirst + i]

C4_Witness ==
    /\ RangeStep /\ ClosedRange /\ IfRangeMatches
    /\ 0 < RangeFirst /\ RangeFirst < RangeLast /\ RangeLast < Target.size
    /\ res.status = 206 /\ Len(res.body.data) > 1

\* The Range header cannot be honoured: several ranges, a first byte at or
\* past the length, a last byte before the first, or a suffix of zero.
RangeRejected ==
    /\ IsSome(req.range)
    /\ \/ Len(Unwrap(req.range)) > 1
       \/ /\ Len(Unwrap(req.range)) = 1
          /\ LET first == Unwrap(req.range)[1][1]
                 last == Unwrap(req.range)[1][2]
             IN  \/ first.b = "Included" /\ first.v >= Target.size
                 \/ first.b = "Included" /\ last.b = "Included" /\ last.v < first.v
                 \/ first.b = "Unbounded" /\ last.b = "Included" /\ last.v = 0

\* C5: such a download whose Range cannot be honoured, or whose If-Range
\* does not match, is answered 200 with the whole file and no
\* Content-Range; no response has status 416.
C5_WholeEntity ==
    /\ res.status /= 416
    /\ (/\ RangeStep /\ local.exit /= "panic" /\ IsSome(req.range)
        /\ RangeRejected \/ (IsSome(req.if_range) /\ ~IfRangeMatches)) =>
            /\ res.status = 200
            /\ res.content_range = None
            /\ res.body.data = Contents(Target)

\* C7: a response whose body is wrapped by a compressor names the codec in
\* Content-Encoding, carries Vary: Accept-Encoding and no Content-Length.
C7_CompressedHeaders ==
    IsSome(res.body.coding) =>
        /\ Unwrap(res.body.coding) \in {"br", "gzip", "deflate"}
        /\ res.content_encoding = res.body.coding
        /\ res.vary = Some("accept-encoding")
        /\ res.content_length = None

C7_Witness ==
    /\ local.exit = "done" /\ res.status = 200
    /\ res.body.coding = Some("gzip") /\ res.content_encoding = Some("gzip")

\* The Content-Type of the response is one of the compressed formats.
CompressedType ==
    /\ IsSome(res.content_type)
    /\ \/ Unwrap(res.content_type).type \in {"video", "audio"}
       \/ Unwrap(res.content_type).subtype \in {"gif", "jpeg", "png"}

\* C8: nothing is compressed, and no Content-Encoding is sent, when the
\* status is 206, the MIME type is a compressed format, or compress is off.
C8_NeverCompressed ==
    (res.status = 206 \/ CompressedType \/ ~args.compress) =>
        /\ res.body.coding = None
        /\ res.content_encoding = None

C8_Witness ==
    /\ local.exit = "done" /\ res.status = 206 /\ args.compress
    /\ IsSome(req.accept_encoding)
    /\ get_prior_encoding(Unwrap(req.accept_encoding)) = "gzip"
    /\ ~CompressedType /\ res.body.coding = None

\* C9: a 200 response sent uncompressed whose sender gave a size hint
\* carries Content-Length equal to the hint.
C9_ContentLength ==
    (/\ local.exit = "done" /\ res.status = 200
     /\ res.body.coding = None /\ IsSome(local.content_length)) =>
        res.content_length = local.content_length

-----------------------------------------------------------------------------
(* Properties of the conditional-request evaluator *)

\* C6 as stated: whenever is_fresh holds, is_precondition_failed does not.
C6_FreshNotFailed == (cond.evaluated /\ cond.fresh) => ~cond.failed

\* If-Match and If-Unmodified-Since, where present, pass.
IfMatchPasses ==
    \/ cond.req.if_match.kind \in {"absent", "any"}
    \/ \E t \in cond.req.if_match.tags : ~t.weak /\ t.tag = cond.etag.tag
IfUnmodifiedSincePasses ==
    \/ ~IsSome(cond.req.if_unmodified_since)
    \/ cond.last_modified.secs <= Unwrap(cond.req.if_unmodified_since).secs

\* C6 amended: for a GET or HEAD request whose If-Match and
\* If-Unmodified-Since (where present) pass, is_fresh implies that
\* is_precondition_failed does not hold.
C6_FreshNotFailedGetHead ==
    (/\ cond.evaluated /\ cond.fresh
     /\ cond.req.method \in {"GET", "HEAD"}
     /\ IfMatchPasses /\ IfUnmodifiedSincePasses) => ~cond.failed

C6_Witness ==
    /\ cond.evaluated /\ cond.fresh /\ ~cond.failed
    /\ cond.req.method = "HEAD"
    /\ cond.req.if_match.kind = "items" /\ IfMatchPasses
    /\ IsSome(cond.req.if_unmodified_since) /\ IfUnmodifiedSincePasses
    /\ cond.req.if_none_match.kind = "items"

-----------------------------------------------------------------------------
(* Properties of LoggableBody *)

\* The stream terminates in poll k: the inner body returned end of stream,
\* or the poll returned an item and the bytes counted so far reach
\* content_length.
TerminatesAt(k) ==
    \/ lb.out[k].polled = EndOfStream
    \/ /\ lb.out[k].polled /= Pending
       /\ IsSome(lb.content_length)
       /\ lb.out[k].bytes_sent >= Unwrap(lb.content_length)

\* C10: a LoggableBody holding a log record prints a line in the first
\* poll in which the stream terminates, and in no other poll.
C10_ExactlyOneLine ==
    lb.log =>
        \A k \in DOMAIN lb.out :
            lb.out[k].logged <=>
                (TerminatesAt(k) /\ \A j \in 1..(k - 1) : ~TerminatesAt(j))

\* The body was dropped after it had yielded a chunk, before any poll in
\* which the stream terminated.
Abandoned ==
    /\ lb.dropped
    /\ \E k \in DOMAIN lb.out : lb.out[k].polled.kind = "data"
    /\ \A k \in DOMAIN lb.out : ~TerminatesAt(k)
\* The inner body yielded an error.
ErrorYielded == \E k \in DOMAIN lb.out : lb.out[k].polled = ErrorItem

\* C11: when a body holding a log record is abandoned before it terminates,
\* or its inner body yields an error, a log line has been printed and it
\* reports the bytes counted so far.
C11_AbandonedLogged ==
    (lb.log /\ (Abandoned \/ ErrorYielded)) =>
        /\ lb.lines /= <<>>
        /\ lb.lines[Len(lb.lines)] = lb.bytes_sent

\* The items polls have returned so far, Pending left out.
RECURSIVE Yielded(_)
Yielded(out) ==
    IF out = <<>> THEN <<>>
    ELSE IF out[Len(out)].polled = Pending
    THEN Yielded(SubSeq(out, 1, Len(out) - 1))
    ELSE Append(Yielded(SubSeq(out, 1, Len(out) - 1)), out[Len(out)].polled)
\* Sum of the lengths of the data chunks in a sequence of items.
RECURSIVE DataBytes(_)
DataBytes(items) ==
    IF items = <<>> THEN 0
    ELSE DataBytes(Tail(items))
            + (IF Head(items).kind = "data" THEN Head(items).len ELSE 0)
\* The poll numbers in which a line was printed, in order.
LoggedPolls == {k \in DOMAIN lb.out : lb.out[k].logged}

\* C12: the items returned are the inner body's items, unchanged and in
\* order (end of stream only after the last of them), and every log line
\* reports the sum of the lengths of the data chunks yielded up to and
\* including the poll that printed it.
C12_ForwardsAndCounts ==
    LET yielded == Yielded(lb.out)
        items == SelectSeq(yielded, LAMBDA x : x /= EndOfStream)
    IN  /\ Len(items) <= Len(lb.source)
        /\ items = SubSeq(lb.source, 1, Len(items))
        /\ lb.inner = SubSeq(lb.source, Len(items) + 1, Len(lb.source))
        /\ \A k \in DOMAIN yielded :
              yielded[k] = EndOfStream => k > Len(lb.source)
        /\ Len(lb.lines) = Cardinality(LoggedPolls)
        /\ \A k \in LoggedPolls :
              /\ lb.out[k].bytes_sent = DataBytes(Yielded(SubSeq(lb.out, 1, k)))
              /\ lb.lines[Cardinality({j \in LoggedPolls : j <= k})]
                    = lb.out[k].bytes_sent

C12_Witness ==
    /\ lb.log /\ Len(lb.lines) = 1 /\ lb.lines[1] = 3
    /\ Len(lb.out) >= 4
    /\ \E k \in DOMAIN lb.out : lb.out[k].polled = Pending
    /\ lb.out[Len(lb.out)].polled = EndOfStream
    /\ ~IsSome(lb.content_length)

-----------------------------------------------------------------------------
(* Further properties of the conditional-request evaluator *)

\* If-None-Match is present and weak-matches the ETag (`*' matches).
IfNoneMatchMatches ==
    \/ cond.req.if_none_match.kind = "any"
    \/ /\ cond.req.if_none_match.kind = "items"
       /\ \E t \in cond.req.if_none_match.tags : t.tag = cond.etag.tag
IfNoneMatchPresent == cond.req.if_none_match.kind /= "absent"
\* If-Match is present and lists a tag that strong-matches the ETag.
IfMatchStrongMatches ==
    /\ cond.req.if_match.kind = "items"
    /\ \E t \in cond.req.if_match.tags : ~t.weak /\ t.tag = cond.etag.tag
\* last_modified is later than the If-Unmodified-Since date, in whole seconds.
ModifiedAfterSince ==
    /\ IsSome(cond.req.if_unmodified_since)
    /\ cond.last_modified.secs > Unwrap(cond.req.if_unmodified_since).secs

\* C13: for a method other than GET and HEAD, with If-Match and
\* If-Unmodified-Since passing where present, the precondition fails exactly
\* when If-None-Match is present and weak-matches the ETag.
C13_NoneMatchOtherMethods ==
    (/\ cond.evaluated
     /\ cond.req.method \notin {"GET", "HEAD"}
     /\ IfMatchPasses /\ IfUnmodifiedSincePasses) =>
        (cond.failed <=> IfNoneMatchMatches)

\* C14: with If-None-Match present, and an If-Match that strong-matches the
\* ETag or (If-Match absent) an If-Unmodified-Since not earlier than
\* last_modified, the precondition holds for GET and HEAD and fails for
\* every other method.
C14_NoneMatchByMethod ==
    (/\ cond.evaluated /\ IfNoneMatchPresent
     /\ \/ IfMatchStrongMatches
        \/ /\ cond.req.if_match.kind = "absent"
           /\ IsSome(cond.req.if_unmodified_since) /\ ~ModifiedAfterSince) =>
        (cond.failed <=> cond.req.method \notin {"GET", "HEAD"})

\* C15: If-Unmodified-Since counts only when If-Match is absent: then (no
\* If-None-Match) the precondition fails exactly when last_modified is
\* later than its date; with an If-Match that strong-matches (no
\* If-None-Match) the precondition does not fail whatever the date.
C15_UnmodifiedSinceOnlyWithoutIfMatch ==
    (cond.evaluated /\ ~IfNoneMatchPresent) =>
        /\ (cond.req.if_match.kind = "absent"
                /\ IsSome(cond.req.if_unmodified_since)) =>
              (cond.failed <=> ModifiedAfterSince)
        /\ IfMatchStrongMatches => ~cond.failed

\* C16: is_fresh holds exactly when If-None-Match is present and is `*' or
\* lists a tag that weak-matches the ETag, or If-None-Match is absent,
\* If-Modified-Since is present and last_modified is not later than its
\* date in whole seconds.
C16_Fresh ==
    cond.evaluated =>
        (cond.fresh <=>
            \/ IfNoneMatchMatches
            \/ /\ ~IfNoneMatchPresent
               /\ IsSome(cond.req.if_modified_since)
               /\ cond.last_modified.secs <= Unwrap(cond.req.if_modified_since).secs)

\* Fresh by date alone, with last_modified inside the second of the date.
C16_Witness ==
    /\ cond.evaluated /\ cond.fresh /\ ~IfNoneMatchPresent
    /\ IsSome(cond.req.if_modified_since)
    /\ cond.last_modified.secs = Unwrap(cond.req.if_modified_since).secs
    /\ cond.last_modified.subsec > 0

-----------------------------------------------------------------------------
(* The range-request functions on their own *)

RangeInputs ==
    {[evaluated |-> FALSE,
      req |-> [Request("GET", UriPath(<<file_txt>>)) EXCEPT
                  !.range = range, !.if_range = if_range],
      etag |-> FileTag, last_modified |-> LastModifiedFrom(Mtime),
      complete_length |-> complete_length, checks |-> checks,
      fresh |-> FALSE, sat |-> None] :
        range \in {None} \cup Ranges, if_range \in IfRanges,
        complete_length \in 0..MaxLen, checks \in BOOLEAN}

InitRange ==
    /\ args = DefaultArgs
    /\ req = NoRequest
    /\ res = [DefaultResponse EXCEPT !.status = 0]
    /\ local = NoLocals
    /\ cond = CondIdle
    /\ lb = LbIdle
    /\ vanished = FALSE
    /\ ls = LsIdle
    /\ snd = SndIdle
    /\ rng \in RangeInputs
    /\ neg = NegIdle

\* Apply is_range_fresh, and is_satisfiable_range when there is a Range
\* header to hand to it.
EvaluateRange ==
    /\ ~rng.evaluated
    /\ rng' = [rng EXCEPT
            !.evaluated = TRUE,
            !.fresh = is_range_fresh(rng.req, rng.etag, rng.last_modified),
            !.sat = IF IsSome(rng.req.range)
                    THEN is_satisfiable_range(Unwrap(rng.req.range),
                                              rng.complete_length, rng.checks)
                    ELSE None]
    /\ UNCHANGED <<args, req, res, local, cond, lb, neg, vanished, ls, snd>>

NextRange == EvaluateRange

SpecRange == InitRange /\ [][NextRange]_vars

\* C17: is_range_fresh is false without a Range header; true with Range and
\* no If-Range; with both, true exactly when If-Range is an entity tag that
\* strong-matches the ETag or a date equal to last_modified in whole
\* seconds.
C17_RangeFresh ==
    rng.evaluated =>
        (rng.fresh <=>
            /\ IsSome(rng.req.range)
            /\ \/ ~IsSome(rng.req.if_range)
               \/ /\ IsSome(rng.req.if_range)
                  /\ \E if_range \in {Unwrap(rng.req.if_range)} :
                        \/ /\ if_range.kind = "etag"
                           /\ ~if_range.etag.weak /\ ~rng.etag.weak
                           /\ if_range.etag.tag = rng.etag.tag
                        \/ /\ if_range.kind = "date"
                           /\ if_range.date.secs = rng.last_modified.secs)

\* The range the Range header of the drawn request asks for, when it is a
\* single byte-range-spec the representation can satisfy: <<start, end>>
\* in a one-element set, else the empty set.
ClaimedRange ==
    IF ~IsSome(rng.req.range) \/ Len(Unwrap(rng.req.range)) /= 1 THEN {}
    ELSE LET first == Unwrap(rng.req.range)[1][1]
             last == Unwrap(rng.req.range)[1][2]
             len == rng.complete_length
         IN  IF first.b = "Included" /\ last.b = "Included"
                /\ first.v <= last.v /\ first.v < len
             THEN {<<first.v, IF last.v < len - 1 THEN last.v ELSE len - 1>>}
             ELSE IF first.b = "Included" /\ last.b = "Unbounded" /\ first.v < len
             THEN {<<first.v, len - 1>>}
             ELSE IF first.b = "Unbounded" /\ last.b = "Included" /\ last.v > 0
             THEN {<<IF len - last.v > 0 THEN len - last.v ELSE 0, len - 1>>}
             ELSE {}

\* C18: is_satisfiable_range returns Some only for one byte-range-spec:
\* a-b (a <= b, a < len) gives a..=min(b, len-1); a- (a < len) gives
\* a..=len-1; -n (n > 0) gives max(len-n, 0)..=len-1; anything else gives
\* None; and every returned range has start <= end <= len-1.
C18_SatisfiableRange ==
    (rng.evaluated /\ IsSome(rng.req.range)) =>
        /\ ClaimedRange = {} => rng.sat = None
        /\ \A r \in ClaimedRange :
              rng.sat = Some(ContentRange(r[1], r[2], rng.complete_length))
        /\ IsSome(rng.sat) =>
              /\ ~Unwrap(rng.sat).panic
              /\ Unwrap(rng.sat).range[1] <= Unwrap(rng.sat).range[2]
              /\ Unwrap(rng.sat).range[2] <= rng.complete_length - 1

-----------------------------------------------------------------------------
(* get_prior_encoding on its own *)

\* Accept-Encoding headers hold up to MaxEntries comma-separated entries.
MaxEntries == 3

\* Entries: each token with no weight, weight 0 and weight 0.5; a weight
\* above 1, a weight that is no number, and the empty entry.
Entries ==
    {Entry(content, param) :
        content \in {BR, GZIP, DEFLATE, "compress"},
        param \in {None, Some("q=0"), Some("q=0.5")}}
        \cup {Entry(BR, Some("q=1.5")), Entry(GZIP, Some("1234asd")), Entry("", None)}

InitEnc ==
    /\ args = DefaultArgs
    /\ req = NoRequest
    /\ res = [DefaultResponse EXCEPT !.status = 0]
    /\ local = NoLocals
    /\ cond = CondIdle
    /\ lb = LbIdle
    /\ vanished = FALSE
    /\ ls = LsIdle
    /\ snd = SndIdle
    /\ rng = RngIdle
    /\ \E header \in SeqsUpTo(Entries, MaxEntries) :
          neg = [evaluated |-> FALSE, header |-> header, result |-> ""]

\* Apply get_prior_encoding to the drawn header.
Negotiate ==
    /\ ~neg.evaluated
    /\ neg' = [neg EXCEPT !.evaluated = TRUE,
                          !.result = get_prior_encoding(neg.header)]
    /\ UNCHANGED <<args, req, res, local, cond, lb, rng, vanished, ls, snd>>

NextEnc == Negotiate

SpecEnc == InitEnc /\ [][NextEnc]_vars

\* The (weight, rank) pairs of the header's non-empty entries.
Candidates ==
    {<<Unwrap(parse_qvalue(neg.header[i])).weight,
       EncodingRank(neg.header[i].content)>> :
        i \in {j \in DOMAIN neg.header : IsSome(parse_qvalue(neg.header[j]))}}
RankToken(rank) ==
    CASE rank = 3 -> "br" [] rank = 2 -> "gzip" [] rank = 1 -> "deflate"
      [] OTHER -> "identity"
Reordered(header, p) == [i \in DOMAIN header |-> header[p[i]]]

C20_ZeroWeightExcluded ==
    (neg.evaluated /\ neg.result /= "identity") =>
        \E i \in DOMAIN neg.header :
            /\ neg.header[i].content = neg.result
            /\ IsSome(parse_qvalue(neg.header[i]))
            /\ Unwrap(parse_qvalue(neg.header[i])).weight > 0

-----------------------------------------------------------------------------
(* The pipeline under every configuration of root, prefix and index *)

SitePrefix == <<Normal("pre", "p", "")>>

SiteArgs ==
    [path : {Root, DotRoot}, all : BOOLEAN, ignore : {TRUE}, follow_links : BOOLEAN,
     compress : {TRUE}, cors : BOOLEAN, coi : {FALSE}, cache : {0},
     render_index : BOOLEAN, path_prefix : {None, Some(SitePrefix)}]

SitePaths ==
    {<<>>, <<file_txt>>, <<readme>>, <<img_png>>, <<hidden_html>>, <<hidden_dir>>,
     <<ignore_pattern>>, <<dir>>, <<pics_png>>, <<site>>, <<site, index_html>>,
     <<link>>, <<missing>>, <<ParentDir, secret>>}

\* GET requests for every path, with and without the prefix, and every
\* action value.
SiteRequests ==
    {[Request("GET", p) EXCEPT !.action = q] :
        p \in {UriPath(pre \o comps) : pre \in {<<>>, SitePrefix}, comps \in SitePaths}
                \cup {[UriPath(etc_passwd) EXCEPT !.absolute = TRUE],
                      [UriPath(<<>>) EXCEPT !.valid = FALSE]},
        q \in {None, Some("zip"), Some("tar")}}

InitSite ==
    /\ args \in SiteArgs
    /\ req = NoRequest
    /\ res = [DefaultResponse EXCEPT !.status = 0]
    /\ local = NoLocals
    /\ cond = CondIdle
    /\ lb = LbIdle
    /\ rng = RngIdle
    /\ neg = NegIdle
    /\ vanished = FALSE
    /\ ls = LsIdle
    /\ snd = SndIdle

\* InnerService::call on one request.  Another process may remove the
\* target of a file download after the gates have passed and before line
\* 343 reads its metadata.
ServeSite ==
    /\ local = NoLocals
    /\ \E r \in SiteRequests, gone \in BOOLEAN :
        \E out \in {call(args, r, FALSE, gone)} :
            /\ gone => (out.kind = "panic" /\ out.local.action = "DownloadFile")
            /\ req' = r
            /\ res' = out.res
            /\ local' = out.local
            /\ vanished' = gone
            /\ UNCHANGED <<args, cond, lb, rng, neg, ls, snd>>

AwaitSite ==
    /\ local /= NoLocals
    /\ req' = NoRequest
    /\ res' = [DefaultResponse EXCEPT !.status = 0]
    /\ local' = NoLocals
    /\ vanished' = FALSE
    /\ UNCHANGED <<args, cond, lb, rng, neg, ls, snd>>

NextSite == ServeSite \/ AwaitSite

SpecSite == InitSite /\ [][NextSite]_vars

\* C21: a request resolved to a path whose action value is not zip, or is
\* zip while the path is not a directory, is answered 500, whether or not
\* the path exists, is visible or lies under the root.
C21_InvalidAction ==
    (/\ IsSome(local.path) /\ IsSome(req.action)
     /\ Unwrap(req.action) /= "zip" \/ ~is_dir(ResolvedPath)) =>
        /\ res.status = 500
        /\ res.body = Body("text", <<"500 Internal Server Error">>)

\* ?action=zip on a file outside the root, with follow_links off: 500, not 403.
C21_Witness ==
    /\ IsSome(local.path) /\ req.action = Some("zip")
    /\ exists(ResolvedPath) /\ ~is_dir(ResolvedPath)
    /\ OutsideRoot /\ ~args.follow_links
    /\ res.status = 500

\* C22: the Content-Type of a successful response is fixed by the action:
\* text/html; charset=utf-8 for a listing, application/octet-stream for a
\* ZIP download, whatever the directory is called; for a file the type
\* guessed from its extension, or text/plain; charset=utf-8.
C22_ContentTypeByAction ==
    (IsSome(local.path) /\ local.exit = "done" /\ res.status = 200) =>
        res.content_type = Some(
            CASE local.action = "ListDir" -> TEXT_HTML_UTF_8
              [] local.action = "DownloadZip" -> APPLICATION_OCTET_STREAM
              [] OTHER ->
                    IF IsSome(mime(ResolvedPath))
                    THEN IF Unwrap(mime(ResolvedPath)).type = "text"
                         THEN [Unwrap(mime(ResolvedPath)) EXCEPT !.charset = "utf-8"]
                         ELSE Unwrap(mime(ResolvedPath))
                    ELSE TEXT_PLAIN_UTF_8)

\* C23: when the target's metadata cannot be read as the validators are
\* computed, the request ends with a 500 response and the handler does not
\* panic.
C23_MetadataFailureIs500 ==
    vanished => (local.exit /= "panic" /\ res.status = 500)

\* C24: with cors on, every response returned carries
\* Access-Control-Allow-Origin: * and Access-Control-Allow-Headers: Range,
\* Content-Type, Accept, Origin, whatever its status; with cors off no
\* response carries either.
C24_CorsOnEveryResponse ==
    (local /= NoLocals /\ local.exit /= "panic") =>
        IF args.cors
        THEN /\ res.access_control_allow_origin = Some("*")
             /\ res.access_control_allow_headers =
                    Some(<<"range", "content-type", "accept", "origin">>)
        ELSE /\ res.access_control_allow_origin = None
             /\ res.access_control_allow_headers = None

-----------------------------------------------------------------------------
(* The ordering of a directory listing (src/server/send.rs, lines 83-136) *)

\* A directory holds up to MaxItems entries.
MaxItems == 3

\* As Item_cmp, but only the path types are compared.
Item_cmp_type_only(a, b) ==
    IF PathTypeRank(a.path_type) < PathTypeRank(b.path_type) THEN "Less"
    ELSE IF PathTypeRank(a.path_type) > PathTypeRank(b.path_type) THEN "Greater"
    ELSE "Equal"

\* Item's derived Ord: the fields in their order of declaration.
Item_cmp(a, b) ==
    IF PathTypeRank(a.path_type) < PathTypeRank(b.path_type) THEN "Less"
    ELSE IF PathTypeRank(a.path_type) > PathTypeRank(b.path_type) THEN "Greater"
    ELSE IF NameRank(a.name) < NameRank(b.name) THEN "Less"
    ELSE IF NameRank(a.name) > NameRank(b.name) THEN "Greater"
    ELSE IF NameRank(a.path) < NameRank(b.path) THEN "Less"
    ELSE IF NameRank(a.path) > NameRank(b.path) THEN "Greater"
    ELSE "Equal"

\* files.sort_unstable(): the place element i of v takes.  Elements that
\* compare Equal are equal in every field, so their order cannot be seen.
files_sorted_index(v, i) ==
    Cardinality({j \in DOMAIN v :
        \E o \in {Item_cmp(v[j], v[i])} :
            o = "Less" \/ (o = "Equal" /\ j < i)}) + 1

files_sort_unstable(v) ==
    [k \in DOMAIN v |-> v[CHOOSE i \in DOMAIN v : files_sorted_index(v, i) = k]]

\* Entries a listed directory may hold: each name as a directory, a file or
\* a symbolic link to either.  The href of an entry ends in its name, so
\* hrefs are ordered as the names are.
ListNames == {"README", "a.txt", "dir", "link"}
PathTypes == {"Dir", "SymlinkDir", "File", "SymlinkFile"}
ListItems == {Item(t, n, n) : t \in PathTypes, n \in ListNames}
ParentItem == Item("Dir", "..", "..")

\* The orders in which a walk may yield the entries of a directory: the
\* names in a directory differ.
Walks ==
    {w \in SeqsUpTo(ListItems, MaxItems) :
        \A i, j \in DOMAIN w : i /= j => w[i].name /= w[j].name}

InitList ==
    /\ args = DefaultArgs
    /\ req = NoRequest
    /\ res = [DefaultResponse EXCEPT !.status = 0]
    /\ local = NoLocals
    /\ cond = CondIdle
    /\ lb = LbIdle
    /\ rng = RngIdle
    /\ neg = NegIdle
    /\ vanished = FALSE
    /\ snd = SndIdle
    /\ \E w \in Walks, sub \in BOOLEAN :
          ls = [listed |-> FALSE, walk |-> w, sub |-> sub, files |-> <<>>]

\* Lines 104-133 of send_dir: collect the walk, with the parent item in
\* front when the directory is not the base, and sort.
ListDir ==
    /\ ~ls.listed
    /\ ls' = [ls EXCEPT
            !.listed = TRUE,
            !.files = files_sort_unstable(
                          IF ls.sub THEN <<ParentItem>> \o ls.walk ELSE ls.walk)]
    /\ UNCHANGED <<args, req, res, local, cond, lb, rng, neg, vanished, snd>>

NextList == ListDir

SpecList == InitList /\ [][NextList]_vars

\* (path_type, name, href) of an item, as ranks.
ItemKey(x) == <<PathTypeRank(x.path_type), NameRank(x.name), NameRank(x.path)>>
KeyLess(a, b) ==
    \/ a[1] < b[1]
    \/ a[1] = b[1] /\ a[2] < b[2]
    \/ a[1] = b[1] /\ a[2] = b[2] /\ a[3] < b[3]
Collected(w) == IF ls.sub THEN <<ParentItem>> \o w ELSE w

\* C25: the items of a listing are those of the walk, ascending by
\* (path_type, name, href) with Dir < SymlinkDir < File < SymlinkFile, and
\* every order in which the walk may yield the same entries gives the same
\* sequence.
C25_ListingOrder ==
    ls.listed =>
        /\ Len(ls.files) = Len(Collected(ls.walk))
        /\ {ls.files[i] : i \in DOMAIN ls.files} =
              {Collected(ls.walk)[i] : i \in DOMAIN Collected(ls.walk)}
        /\ \A i, j \in DOMAIN ls.files :
              i < j => KeyLess(ItemKey(ls.files[i]), ItemKey(ls.files[j]))
        /\ \A p \in Permutations(DOMAIN ls.walk) :
              files_sort_unstable(Collected([i \in DOMAIN ls.walk |-> ls.walk[p[i]]]))
                  = ls.files

\* A walk that yields a file, then a symlinked directory, then a
\* directory, listed below the parent item in the order of the types.
C25_Witness ==
    /\ ls.listed /\ ls.sub /\ Len(ls.walk) = 3
    /\ ls.walk[1].path_type = "File"
    /\ ls.walk[2].path_type = "SymlinkDir"
    /\ ls.walk[3].path_type = "Dir"
    /\ ls.files = <<ParentItem, ls.walk[3], ls.walk[2], ls.walk[1]>>

-----------------------------------------------------------------------------
(* Further properties of the request pipeline *)

\* C26: every 206 response carries Content-Length equal to the number of
\* bytes of its Content-Range interval, end - start + 1.
C26_PartialContentLength ==
    (res.status = 206 /\ IsSome(res.content_range)) =>
        res.content_length =
            Some(Unwrap(res.content_range).range[2]
                    - Unwrap(res.content_range).range[1] + 1)

\* Files with bytes whose canonical path lies outside the serving root.
OutsideFiles ==
    {e \in Fs : ~e.is_dir /\ e.size > 0 /\ ~starts_with(e.canon, args.path)}

\* C27: with follow_links off, the archive returned for ?action=zip never
\* contains the bytes of a file whose canonical path lies outside the root.
C27_ZipStaysInRoot ==
    (/\ local.action = "DownloadZip" /\ local.exit = "done"
     /\ ~args.follow_links) =>
        \A i \in DOMAIN res.body.data :
            \A e \in OutsideFiles : res.body.data[i].path.data /= Contents(e)


-----------------------------------------------------------------------------
(* send_file_with_range on its own (src/server/send.rs 239-259) *)

\* The files send_file_with_range is given: every entry File::open opens,
\* the symbolic link to a file included.
SendPaths == {e.path : e \in {f \in Fs : ~f.is_dir}}

\* Offsets of a range: inside the longest file, at its end and past it.
SendOffsets == 0..(MaxLen + 1)

InitSend ==
    /\ args = DefaultArgs
    /\ req = NoRequest
    /\ res = [DefaultResponse EXCEPT !.status = 0]
    /\ local = NoLocals
    /\ cond = CondIdle
    /\ lb = LbIdle
    /\ rng = RngIdle
    /\ neg = NegIdle
    /\ vanished = FALSE
    /\ ls = LsIdle
    /\ \E path \in SendPaths, start \in SendOffsets, end \in SendOffsets,
          checks \in BOOLEAN :
          snd = [SndIdle EXCEPT !.path = path, !.range = <<start, end>>,
                                !.checks = checks]

\* One call of send_file_with_range; the stream is then read to its end.
SendRange ==
    /\ ~snd.sent
    /\ snd' = [snd EXCEPT
            !.sent = TRUE,
            !.out = send_file_with_range(snd.path, snd.range, snd.checks)]
    /\ UNCHANGED <<args, req, res, local, cond, lb, rng, neg, vanished, ls>>

NextSend == SendRange

SpecSend == InitSend /\ [][NextSend]_vars

\* Claim C28: for every file length n and every start <= end,
\* send_file_with_range returns normally, its size hint is
\* min(end, n-1) - start + 1 when start < n and 0 otherwise, and the
\* stream yields exactly that many bytes; an empty file is no exception.
C28_SizeHintIsYield ==
    (snd.sent /\ snd.range[1] <= snd.range[2]) =>
        \E n \in {metadata(snd.path).size} :
            /\ snd.out.kind = "ok"
            /\ snd.out.size = (IF snd.range[1] < n
                               THEN Min(snd.range[2], n - 1) - snd.range[1] + 1
                               ELSE 0)
            /\ snd.out.size = Len(snd.out.body.data)

-----------------------------------------------------------------------------
(* Hidden paths and index rendering (specification SpecSite) *)

\* The components of a resolved path below the serving root.
BelowRoot(path) == SubSeq(path, Len(args.path) + 1, Len(path))

\* Claim C29: with all off, hiding looks only at the components below
\* the serving root: a request resolved to an existing, not ignored file
\* under the root, none of whose components below the root begins with a
\* dot, is not answered 404, whatever the components of the root itself.
C29_HiddenBelowRootOnly ==
    (/\ ~args.all
     /\ local.exit \notin {"init", "panic"}
     /\ IsSome(local.path)
     /\ starts_with(Unwrap(local.path), args.path)
     /\ exists(Unwrap(local.path))
     /\ ~is_dir(Unwrap(local.path))
     /\ ~path_is_ignored(args, Unwrap(local.path))
     /\ ~is_relatively_hidden(BelowRoot(Unwrap(local.path)))) =>
        res.status /= 404

\* The directory a request names: the root joined with the request path
\* after the prefix is stripped, when that is a directory.
RequestedDir ==
    {d \in {join(args.path, Unwrap(sp)) :
                sp \in {x \in {strip_path_prefix(args, req.path)} : IsSome(x)}} :
        req.path.valid /\ is_dir(d)}

=============================================================================
